---- MODULE Spec2Model ----
(***************************************************************************)
(* Response cache of commit-msg: the diff hasher (internal/cache/hasher.go) *)
(* and the cache manager (internal/cache/cache.go).                         *)
(*                                                                          *)
(* Strings are sequences of tokens.  The token alphabet is prefix-free, so  *)
(* two token sequences are equal exactly when the byte strings they spell   *)
(* are equal, and the lexicographic order on token sequences by byte order  *)
(* of the tokens is the byte order Go's sort.Strings uses.                  *)
(***************************************************************************)
EXTENDS Integers, Sequences, FiniteSets, TLC

\* ------------------------------------------------------------------------
\* Strings
\* ------------------------------------------------------------------------

\* The tokens, in byte order of their first byte.
Alphabet == << "\n", " ", "+", "-", "/", "@", "attempt:1", "diff --git",
               "index ", "style:", "x", "y", "|" >>

Rank(c) == CHOOSE i \in 1..Len(Alphabet) : Alphabet[i] = c

IsSpace(c) == c \in {" ", "\n"}

RECURSIVE TrimLeft(_)
TrimLeft(s) ==
    IF s # << >> /\ IsSpace(Head(s)) THEN TrimLeft(Tail(s)) ELSE s

RECURSIVE TrimRight(_)
TrimRight(s) ==
    IF s # << >> /\ IsSpace(s[Len(s)])
    THEN TrimRight(SubSeq(s, 1, Len(s) - 1))
    ELSE s

\* strings.TrimSpace
TrimSpace(s) == TrimRight(TrimLeft(s))

\* strings.HasPrefix
HasPrefix(s, p) == Len(s) >= Len(p) /\ SubSeq(s, 1, Len(p)) = p

\* strings.Contains, for a one-token substring
Contains(s, c) == \E i \in 1..Len(s) : s[i] = c

\* strings.Split(s, sep) for a one-token separator: always at least one field
RECURSIVE SplitFrom(_, _, _)
SplitFrom(s, sep, cur) ==
    IF s = << >> THEN << cur >>
    ELSE IF Head(s) = sep THEN << cur >> \o SplitFrom(Tail(s), sep, << >>)
    ELSE SplitFrom(Tail(s), sep, Append(cur, Head(s)))

Split(s, sep) == SplitFrom(s, sep, << >>)

\* strings.Join
RECURSIVE Join(_, _)
Join(parts, sep) ==
    IF parts = << >> THEN << >>
    ELSE IF Len(parts) = 1 THEN parts[1]
    ELSE parts[1] \o << sep >> \o Join(Tail(parts), sep)

\* the order of Go's string comparison
RECURSIVE StrLess(_, _)
StrLess(a, b) ==
    IF b = << >> THEN FALSE
    ELSE IF a = << >> THEN TRUE
    ELSE IF Head(a) = Head(b) THEN StrLess(Tail(a), Tail(b))
    ELSE Rank(Head(a)) < Rank(Head(b))

RECURSIVE InsertSorted(_, _)
InsertSorted(s, sorted) ==
    IF sorted = << >> THEN << s >>
    ELSE IF StrLess(Head(sorted), s)
         THEN << Head(sorted) >> \o InsertSorted(s, Tail(sorted))
         ELSE << s >> \o sorted

\* sort.Strings
RECURSIVE SortStrings(_)
SortStrings(ss) ==
    IF ss = << >> THEN << >>
    ELSE InsertSorted(Head(ss), SortStrings(Tail(ss)))

\* ------------------------------------------------------------------------
\* DiffHasher
\* ------------------------------------------------------------------------

shouldSkipLine(line) ==
    \/ TrimSpace(line) = << >>
    \/ HasPrefix(line, << "diff --git" >>)
    \/ HasPrefix(line, << "index " >>)
    \/ HasPrefix(line, << "+", "+", "+" >>)
    \/ HasPrefix(line, << "-", "-", "-" >>)
    \/ HasPrefix(line, << "@", "@" >>)
    \/ /\ Contains(line, "/")
       /\ (HasPrefix(line, << "+" >>) \/ HasPrefix(line, << "-" >>))

normalizeLinePrefixOnly(line) ==
    LET t == TrimSpace(line) IN
    IF HasPrefix(t, << "+" >>) \/ HasPrefix(t, << "-" >>)
    THEN << Head(t) >>
    ELSE t

normalizeLine(line) ==
    LET t == TrimSpace(line) IN
    IF HasPrefix(t, << "+" >>) \/ HasPrefix(t, << "-" >>)
    THEN << Head(t) >> \o TrimSpace(Tail(t))
    ELSE t

RECURSIVE normalizedLines(_)
normalizedLines(lines) ==
    IF lines = << >> THEN << >>
    ELSE IF shouldSkipLine(Head(lines)) THEN normalizedLines(Tail(lines))
    ELSE IF normalizeLine(Head(lines)) # << >>
         THEN << normalizeLine(Head(lines)) >> \o normalizedLines(Tail(lines))
         ELSE normalizedLines(Tail(lines))

normalizeDiffUnsorted(diff) ==
    Join(normalizedLines(Split(diff, "\n")), "\n")

normalizeDiff(diff) ==
    Join(SortStrings(normalizedLines(Split(diff, "\n"))), "\n")

\* *types.GenerationOptions: NilOpts (a nil pointer) or a record.
NilOpts == [nil |-> TRUE]

Opt(style, attempt) == [StyleInstruction |-> style, Attempt |-> attempt]

buildHashInputEveryAttempt(normalizedDiff, opts) ==
    LET p1 == << normalizedDiff >>
        p2 == IF opts # NilOpts /\ opts.StyleInstruction # << >>
              THEN Append(p1, << "style:" >> \o TrimSpace(opts.StyleInstruction))
              ELSE p1
        p3 == IF opts = NilOpts \/ opts.Attempt <= 1
              THEN Append(p2, << "attempt:1" >>)
              ELSE Append(p2, << "attempt:", opts.Attempt >>)
    IN  Join(p3, "|")

buildHashInputNoStyle(normalizedDiff, opts) ==
    LET p1 == << normalizedDiff >>
        p3 == IF opts = NilOpts \/ opts.Attempt <= 1
              THEN Append(p1, << "attempt:1" >>)
              ELSE p1
    IN  Join(p3, "|")

buildHashInput(normalizedDiff, opts) ==
    LET p1 == << normalizedDiff >>
        p2 == IF opts # NilOpts /\ opts.StyleInstruction # << >>
              THEN Append(p1, << "style:" >> \o TrimSpace(opts.StyleInstruction))
              ELSE p1
        p3 == IF opts = NilOpts \/ opts.Attempt <= 1
              THEN Append(p2, << "attempt:1" >>)
              ELSE p2
    IN  Join(p3, "|")

\* sha256.Sum256 followed by hex.EncodeToString: a fixed-length digest,
\* taken to be collision-free.
Sha256Hex(input) == [sha256 |-> input]

GenerateHash(diff, opts) == Sha256Hex(buildHashInput(normalizeDiff(diff), opts))

GenerateCacheKeyOtherOpts(provider, diff, opts) ==
    << provider, ":", GenerateHash(diff, Opt(<< "y" >>, 2)) >>

GenerateCacheKeyNoProvider(provider, diff, opts) ==
    << "", ":", GenerateHash(diff, opts) >>

\* fmt.Sprintf("%s:%s", provider, hash): the provider name, a colon and the
\* fixed-length digest.
GenerateCacheKey(provider, diff, opts) ==
    << provider, ":", GenerateHash(diff, opts) >>

getStyleInstruction(opts) == IF opts = NilOpts THEN << >> ELSE opts.StyleInstruction

getAttempt(opts) == IF opts = NilOpts THEN 1 ELSE opts.Attempt

\* ------------------------------------------------------------------------
\* Time and timestamps
\* ------------------------------------------------------------------------

\* The clock counts ticks; an RFC3339 timestamp has whole seconds only.
TicksPerSecond == 2

\* Seconds in 24 * time.Hour, scaled down.
SecondsPerDay == 1

\* time.Time.Format(time.RFC3339): the sub-second part is dropped.
\* A timestamp string is << "ts", seconds >>; << "bad" >> is a string that
\* is not RFC3339 and << >> is the empty string.
Format(t) == << "ts", t \div TicksPerSecond >>

\* time.Parse(time.RFC3339, s): ParseOK is err == nil, Parse the time;
\* on an error the time is the zero time, before every other time.
ZeroTime == -1

ParseOK(s) == Len(s) = 2

Parse(s) == IF ParseOK(s) THEN s[2] * TicksPerSecond ELSE ZeroTime

\* ------------------------------------------------------------------------
\* Maps
\* ------------------------------------------------------------------------

EmptyMap == << >>

\* an insert that keeps the value a key already has
PutIfAbsent(m, k, v) ==
    [x \in (DOMAIN m) \cup {k} |-> IF x \in DOMAIN m THEN m[x] ELSE v]

Put(m, k, v) == [x \in (DOMAIN m) \cup {k} |-> IF x = k THEN v ELSE m[x]]

Restrict(m, S) == [x \in S |-> m[x]]

\* ------------------------------------------------------------------------
\* Bounds and inputs
\* ------------------------------------------------------------------------

\* Largest MaxEntries a configuration carries.
MaxCap == 2

\* MaxAgeDays of the configuration.
MaxAgeBound == 1

\* Last tick of the clock.
MaxTime == 3

\* Number of client calls in a run.
MaxOps == 2

\* Number of failing file-system calls in a run.
MaxFaults == 1

\* Number of concurrent callers.
NumThreads == 2

Providers == {"OpenAI", "Claude"}

\* "+x", and the same change as git prints it with headers and indentation
DiffPlain == << "+", "x" >>

DiffGit == << "diff --git", " ", "x", "\n", "@", "@", " ", "x", "\n",
              "+", " ", "x", " " >>

\* "+x|attempt:1": a change whose text holds the delimiter and the marker
DiffMarker == << "+", "x", "|", "attempt:1" >>

DiffOther == << "+", "y" >>

Req(p, d, o) == [p |-> p, d |-> d, o |-> o]

NoReq == Req("", << >>, NilOpts)

\* The (provider, diff, options) triples the callers pass.
Requests ==
    { Req("OpenAI", DiffPlain, NilOpts),
      Req("Claude", DiffPlain, NilOpts),
      Req("OpenAI", DiffPlain, Opt(<< >>, 2)),
      Req("OpenAI", DiffMarker, Opt(<< >>, 2)) }

\* One diff asked for at a first, a second and a third attempt.
Regenerations ==
    { Req("OpenAI", DiffPlain, Opt(<< >>, a)) : a \in 1..3 }

\* The cache key and the fingerprint of every request, computed once.
KeyOf ==
    [r \in Requests \cup Regenerations |-> GenerateCacheKey(r.p, r.d, r.o)]

HashOf == [r \in Requests \cup Regenerations |-> GenerateHash(r.d, r.o)]

NilTokens == [nil |-> TRUE]

\* The (message, cost, tokens) a caller passes to Set; costs in 1/1000 $.
Payloads ==
    { [m |-> "feat: add X", cost |-> 2, tokens |-> NilTokens],
      [m |-> "fix: Y", cost |-> 1, tokens |-> [TotalTokens |-> 7]] }

NoPayload == [m |-> "", cost |-> 0, tokens |-> NilTokens]

\* ------------------------------------------------------------------------
\* CacheManager: data
\* ------------------------------------------------------------------------

NilEntry == [nil |-> TRUE]

\* The zero value of types.CacheStats; HitRate is a fraction in lowest terms.
ZeroStats ==
    [TotalEntries |-> 0, TotalHits |-> 0, TotalMisses |-> 0,
     HitRate |-> << 0, 1 >>, TotalCostSaved |-> 0,
     OldestEntry |-> << >>, NewestEntry |-> << >>, CacheSizeBytes |-> 0]

Configs ==
    [MaxEntries : 1..MaxCap, MaxAgeDays : {MaxAgeBound}]

RECURSIVE Gcd(_, _)
Gcd(a, b) == IF b = 0 THEN a ELSE Gcd(b, a % b)

\* float64(a) / float64(b), b > 0
Quotient(a, b) == << a \div Gcd(a, b), b \div Gcd(a, b) >>

\* json.Marshal of a CacheEntry: the members of the JSON object.  The
\* omitempty members are left out when they hold their zero value.
EntryMembers(e) ==
    {"message", "provider", "diff_hash", "attempt", "created_at",
     "last_accessed_at", "access_count"}
        \cup (IF e.StyleInstruction # << >> THEN {"style_instruction"} ELSE {})
        \cup (IF e.Cost # 0 THEN {"cost"} ELSE {})
        \cup (IF e.Tokens # NilTokens THEN {"tokens"} ELSE {})

MarshalEntry(e) ==
    [m \in EntryMembers(e) |->
        CASE m = "message" -> e.Message
          [] m = "provider" -> e.Provider
          [] m = "diff_hash" -> e.DiffHash
          [] m = "style_instruction" -> e.StyleInstruction
          [] m = "attempt" -> e.Attempt
          [] m = "created_at" -> e.CreatedAt
          [] m = "last_accessed_at" -> e.LastAccessedAt
          [] m = "access_count" -> e.AccessCount
          [] m = "cost" -> e.Cost
          [] m = "tokens" -> e.Tokens]

\* json.Unmarshal into a CacheEntry: a member the object lacks leaves the
\* field at its zero value.
Member(j, m, zero) == IF m \in DOMAIN j THEN j[m] ELSE zero

UnmarshalEntryNoCost(j) ==
    [Message |-> Member(j, "message", ""),
     Provider |-> Member(j, "provider", ""),
     DiffHash |-> Member(j, "diff_hash", << >>),
     StyleInstruction |-> Member(j, "style_instruction", << >>),
     Attempt |-> Member(j, "attempt", 0),
     CreatedAt |-> Member(j, "created_at", << >>),
     LastAccessedAt |-> Member(j, "last_accessed_at", << >>),
     AccessCount |-> Member(j, "access_count", 0),
     Cost |-> 0,
     Tokens |-> Member(j, "tokens", NilTokens)]

UnmarshalEntry(j) ==
    [Message |-> Member(j, "message", ""),
     Provider |-> Member(j, "provider", ""),
     DiffHash |-> Member(j, "diff_hash", << >>),
     StyleInstruction |-> Member(j, "style_instruction", << >>),
     Attempt |-> Member(j, "attempt", 0),
     CreatedAt |-> Member(j, "created_at", << >>),
     LastAccessedAt |-> Member(j, "last_accessed_at", << >>),
     AccessCount |-> Member(j, "access_count", 0),
     Cost |-> Member(j, "cost", 0),
     Tokens |-> Member(j, "tokens", NilTokens)]

\* The backing file: absent, present but not readable, not JSON, or a
\* JSON document whose "entries" member maps each key to a marshalled
\* entry.  entriesNull says that the document has no "entries" member
\* (or null).
FileMissing == [kind |-> "missing"]

FileUnreadable == [kind |-> "unreadable"]

FileMalformed == [kind |-> "malformed"]

JsonFile(ents, isNull, st) ==
    [kind |-> "json", entries |-> ents, entriesNull |-> isNull, stats |-> st]

VARIABLES
    entries,      \* cm.entries: cache key -> entry
    entriesNil,   \* cm.entries is the nil map
    stats,        \* cm.stats
    config,       \* cm.config
    file,         \* the file at cm.filePath
    now,          \* the clock
    crashed,      \* the process died of a panic
    last,         \* the last call and what it returned
    hist,         \* calls since the manager was built or cleared
    mutex,        \* cm.mutex: readers holding it, and whether a writer does
    pc,           \* where each concurrent caller is
    loc,          \* each concurrent caller's locals
    hasher        \* two diffs, the options, and what DiffHasher made of them

vars == << entries, entriesNil, stats, config, file, now, crashed, last,
           hist, mutex, pc, loc, hasher >>

\* ------------------------------------------------------------------------
\* CacheManager: helpers
\* ------------------------------------------------------------------------

\* time.Duration(cm.config.MaxAgeDays) * 24 * time.Hour, in ticks
maxAge(cfg) == cfg.MaxAgeDays * SecondsPerDay * TicksPerSecond

\* The age pass of cleanupOldEntries marks an entry whose CreatedAt does not
\* parse or lies more than maxAge before t.
ExpiredByAccess(e, cfg, t) ==
    \/ ~ParseOK(e.CreatedAt)
    \/ t - Parse(e.LastAccessedAt) > maxAge(cfg)

ExpiredKeepMalformed(e, cfg, t) ==
    /\ ParseOK(e.CreatedAt)
    /\ t - Parse(e.CreatedAt) > maxAge(cfg)

Expired(e, cfg, t) ==
    \/ ~ParseOK(e.CreatedAt)
    \/ t - Parse(e.CreatedAt) > maxAge(cfg)

ExpiredKeys(ents, cfg, t) == {k \in DOMAIN ents : Expired(ents[k], cfg, t)}

\* removeLeastAccessed: the values its local slice existingKeysToDelete can
\* have when it returns, as sets of keys.  The entries not yet marked are
\* sorted by LastAccessedAt, oldest first (ties in any order), and the
\* first entriesToRemove of them are appended to the local slice.
removeLeastAccessed(ents, cfg, existingKeysToDelete) ==
    LET cand == (DOMAIN ents) \ existingKeysToDelete
        entriesToRemove ==
            Cardinality(cand)
                - (cfg.MaxEntries - Cardinality(existingKeysToDelete))
        n == IF entriesToRemove < 0 THEN 0
             ELSE IF entriesToRemove > Cardinality(cand) THEN Cardinality(cand)
             ELSE entriesToRemove
    IN  { existingKeysToDelete \cup R : R \in
            { R \in SUBSET cand :
                /\ Cardinality(R) = n
                /\ \A a \in R, b \in cand \ R :
                      Parse(ents[a].LastAccessedAt)
                          <= Parse(ents[b].LastAccessedAt) } }

\* (keysToDeleteNoGuard: the capacity pass runs whatever the count is, and
\* what it appends is deleted.)
\* What cleanupOldEntries deletes.  keysToDelete is passed to
\* removeLeastAccessed by value: the callee appends to its own copy of the
\* slice header and returns nothing, so the keys the capacity pass picks
\* never reach the caller's keysToDelete, whose length stays what the age
\* pass made it.
keysToDeleteNoGuard(ents, cfg, t) ==
    CHOOSE S \in removeLeastAccessed(ents, cfg, ExpiredKeys(ents, cfg, t)) :
        TRUE

keysToDelete(ents, cfg, t) ==
    LET marked == ExpiredKeys(ents, cfg, t)
        calleeLocal ==
            IF Cardinality(DOMAIN ents) - Cardinality(marked) > cfg.MaxEntries
            THEN removeLeastAccessed(ents, cfg, marked)
            ELSE {marked}
    IN  marked

cleanupOldEntriesStaleCount(ents, st, cfg, t) ==
    LET kept == Restrict(ents, (DOMAIN ents) \ keysToDelete(ents, cfg, t))
    IN  [entries |-> kept, stats |-> st]

\* cleanupOldEntries: the map and the statistics it leaves; it returns nil.
cleanupOldEntries(ents, st, cfg, t) ==
    LET kept == Restrict(ents, (DOMAIN ents) \ keysToDelete(ents, cfg, t))
    IN  [entries |-> kept,
         stats |-> [st EXCEPT !.TotalEntries = Cardinality(DOMAIN kept)]]

\* updateHitRate
\* the miss rate in place of the hit rate
updateHitRateSwapped(st) ==
    LET total == st.TotalHits + st.TotalMisses IN
    IF total > 0
    THEN [st EXCEPT !.HitRate = Quotient(st.TotalMisses, total)]
    ELSE st

updateHitRate(st) ==
    LET total == st.TotalHits + st.TotalMisses IN
    IF total > 0
    THEN [st EXCEPT !.HitRate = Quotient(st.TotalHits, total)]
    ELSE st

\* os.Stat(cm.filePath).Size(), in units that grow with the entry count
FileSize(f) ==
    IF f.kind = "json" THEN 2 + Cardinality(DOMAIN f.entries) ELSE 1

RECURSIVE SumCost(_, _)
SumCost(ents, keys) ==
    IF keys = {} THEN 0
    ELSE LET k == CHOOSE x \in keys : TRUE
         IN  ents[k].Cost + SumCost(ents, keys \ {k})

\* calculateStats: the entries whose CreatedAt parses give the oldest and
\* the newest timestamp and the cost total; the others are skipped.
calculateStats(ents, st, f) ==
    IF Cardinality(DOMAIN ents) = 0
    THEN [st EXCEPT !.OldestEntry = << >>, !.NewestEntry = << >>,
                    !.CacheSizeBytes = 0]
    ELSE LET ok == {k \in DOMAIN ents : ParseOK(ents[k].CreatedAt)}
             oldest == CHOOSE k \in ok : \A j \in ok :
                          Parse(ents[k].CreatedAt) <= Parse(ents[j].CreatedAt)
             newest == CHOOSE k \in ok : \A j \in ok :
                          Parse(ents[k].CreatedAt) >= Parse(ents[j].CreatedAt)
         IN  [st EXCEPT
                !.OldestEntry = IF ok = {} THEN @ ELSE ents[oldest].CreatedAt,
                !.NewestEntry = IF ok = {} THEN @ ELSE ents[newest].CreatedAt,
                !.TotalCostSaved = SumCost(ents, ok),
                !.CacheSizeBytes =
                    IF f.kind = "missing" THEN @ ELSE FileSize(f)]

\* saveCache: "ok" writes the document; "open" is a failing MkdirAll or a
\* failing open of the file, which leaves the file as it was; "write" is a
\* write that fails after the file was truncated.
SaveOutcomes == {"ok", "open", "write"}

saveCache(ents, isNil, st, f, outcome) ==
    CASE outcome = "ok" ->
            JsonFile([k \in DOMAIN ents |-> MarshalEntry(ents[k])], isNil, st)
      [] outcome = "open" -> f
      [] outcome = "write" -> FileMalformed

loadCacheNilOnError(f) ==
    CASE f.kind = "missing" ->
            [entries |-> EmptyMap, entriesNil |-> FALSE,
             stats |-> ZeroStats, err |-> FALSE]
      [] f.kind \in {"unreadable", "malformed"} ->
            [entries |-> EmptyMap, entriesNil |-> TRUE,
             stats |-> ZeroStats, err |-> TRUE]
      [] f.kind = "json" ->
            [entries |-> [k \in DOMAIN f.entries |->
                             UnmarshalEntry(f.entries[k])],
             entriesNil |-> f.entriesNull,
             stats |-> f.stats, err |-> FALSE]

\* loadCache: the map, its nil-ness, the statistics and whether it
\* returned an error, starting from the fields NewCacheManager has set.
loadCache(f) ==
    CASE f.kind = "missing" ->
            [entries |-> EmptyMap, entriesNil |-> FALSE,
             stats |-> ZeroStats, err |-> FALSE]
      [] f.kind \in {"unreadable", "malformed"} ->
            [entries |-> EmptyMap, entriesNil |-> FALSE,
             stats |-> ZeroStats, err |-> TRUE]
      [] f.kind = "json" ->
            [entries |-> [k \in DOMAIN f.entries |->
                             UnmarshalEntry(f.entries[k])],
             entriesNil |-> f.entriesNull,
             stats |-> f.stats, err |-> FALSE]

\* ------------------------------------------------------------------------
\* CacheManager: construction
\* ------------------------------------------------------------------------

\* What a call left behind: its arguments, what it returned, and, when it
\* ran cleanupOldEntries, the map that run started from.
Call(op, r, pl, key, found, ret, err, panic, evicted, before, t) ==
    [op |-> op, req |-> r, payload |-> pl, key |-> key, found |-> found,
     ret |-> ret, err |-> err, panic |-> panic, evicted |-> evicted,
     before |-> before, t |-> t]

NoKey == << "", ":", Sha256Hex(<< >>) >>

Plain(op, err, t) ==
    Call(op, NoReq, NoPayload, NoKey, FALSE, NilEntry, err, FALSE, FALSE,
         EmptyMap, t)

\* An entry as a run of this program at second sec stores it.
StoredEntry(r, pl, sec) ==
    [Message |-> pl.m, Provider |-> r.p,
     DiffHash |-> HashOf[r],
     StyleInstruction |-> getStyleInstruction(r.o),
     Attempt |-> getAttempt(r.o),
     CreatedAt |-> << "ts", sec >>, LastAccessedAt |-> << "ts", sec >>,
     AccessCount |-> 1, Cost |-> pl.cost, Tokens |-> pl.tokens]

FirstReq == Req("OpenAI", DiffPlain, NilOpts)

FirstPayload == CHOOSE pl \in Payloads : pl.cost = 2

\* The files a process can find when it starts: none, one it may not
\* read, one that is not JSON, the document {}, one an earlier run wrote,
\* and one whose entry has a created_at that is not a timestamp.
InitFiles ==
    { FileMissing,
      FileUnreadable,
      FileMalformed,
      JsonFile(EmptyMap, TRUE, ZeroStats),
      JsonFile(KeyOf[FirstReq]
                   :> MarshalEntry(StoredEntry(FirstReq, FirstPayload, 0)),
               FALSE, [ZeroStats EXCEPT !.TotalEntries = 1]),
      JsonFile(KeyOf[FirstReq]
                   :> MarshalEntry([StoredEntry(FirstReq, FirstPayload, 0)
                                      EXCEPT !.CreatedAt = << "bad" >>]),
               FALSE, [ZeroStats EXCEPT !.TotalEntries = 1]) }

\* No diff has been handed to the hasher.
NoHasher ==
    [d |-> << >>, e |-> << >>, o |-> NilOpts, o2 |-> NilOpts, edits |-> {},
     done |-> FALSE, h1 |-> Sha256Hex(<< >>), h2 |-> Sha256Hex(<< >>),
     k1 |-> NoKey, k2 |-> NoKey]

Idle == [t \in 1..NumThreads |-> "idle"]

NoLocals ==
    [t \in 1..NumThreads |->
        [op |-> "", req |-> NoReq, key |-> NoKey, exists |-> FALSE, tmp |-> 0,
         rate |-> << 0, 1 >>]]

Unlocked == [readers |-> {}, writer |-> FALSE]

\* The manager starts with both counters at zero.
Fresh(ld) ==
    /\ ld.stats.TotalHits = 0
    /\ ld.stats.TotalMisses = 0

\* What NewCacheManager leaves behind: it returns no error, and whether it
\* printed the warning about a failed load.
Built(ld, t) ==
    Call("New", NoReq, NoPayload, NoKey, FALSE, [warning |-> ld.err], FALSE,
         FALSE, FALSE, EmptyMap, t)

\* The history of a manager just built: cleared says that Clear has
\* succeeded and no Set has run since, clears counts the successful
\* Clears that ran back to back.
NewHist(ld, ops, faults) ==
    [fresh |-> Fresh(ld), hits |-> 0, misses |-> 0,
     baseHits |-> ld.stats.TotalHits, baseMisses |-> ld.stats.TotalMisses,
     ops |-> ops, faults |-> faults, cleared |-> FALSE, clears |-> 0]

\* NewCacheManager: an empty map and zero statistics, then loadCache, whose
\* error is only printed.
NewCacheManager(f, t, ops, faults) ==
    LET ld == loadCache(f) IN
    /\ entries' = ld.entries
    /\ entriesNil' = ld.entriesNil
    /\ stats' = ld.stats
    /\ crashed' = FALSE
    /\ last' = Built(ld, t)
    /\ hist' = NewHist(ld, ops, faults)
    /\ mutex' = Unlocked
    /\ pc' = Idle
    /\ loc' = NoLocals

Init ==
    \E cfg \in Configs, f \in InitFiles :
        LET ld == loadCache(f) IN
        /\ config = cfg
        /\ file = f
        /\ now = 0
        /\ entries = ld.entries
        /\ entriesNil = ld.entriesNil
        /\ stats = ld.stats
        /\ crashed = FALSE
        /\ last = Built(ld, 0)
        /\ hist = NewHist(ld, 0, 0)
        /\ mutex = Unlocked
        /\ pc = Idle
        /\ loc = NoLocals
        /\ hasher = NoHasher

\* ------------------------------------------------------------------------
\* CacheManager: the calls, one caller at a time
\* ------------------------------------------------------------------------

\* A call can start: the process is alive, nobody holds the mutex, and the
\* run has calls left.
CanCall ==
    /\ ~crashed
    /\ mutex = Unlocked
    /\ pc = Idle
    /\ hist.ops < MaxOps

Counted(h, fault) ==
    [h EXCEPT !.ops = @ + 1, !.faults = IF fault THEN @ + 1 ELSE @,
              !.clears = 0]

\* The fields a call can write, as they are now.
Here ==
    [entries |-> entries, entriesNil |-> entriesNil, stats |-> stats,
     file |-> file, last |-> last, hist |-> hist, crashed |-> crashed]

\* The call leaves these fields as b has them.
Leaves(b) ==
    /\ entries' = b.entries
    /\ entriesNil' = b.entriesNil
    /\ stats' = b.stats
    /\ file' = b.file
    /\ last' = b.last
    /\ hist' = b.hist
    /\ crashed' = b.crashed

LookupChecksAge(ents, key) ==
    key \in DOMAIN ents /\ ~Expired(ents[key], config, now)

\* entry, exists := cm.entries[key]
Lookup(ents, key) == key \in DOMAIN ents

TouchResetsCreated(e, t) ==
    [e EXCEPT !.CreatedAt = Format(t), !.LastAccessedAt = Format(t),
              !.AccessCount = @ + 1]

\* The access bookkeeping of a hit.
Touch(e, t) ==
    [e EXCEPT !.LastAccessedAt = Format(t), !.AccessCount = @ + 1]

\* What Get does between taking the lock and releasing it.
GetBody(r) ==
    LET key == KeyOf[r] IN
    IF ~Lookup(entries, key)
    THEN [Here EXCEPT
            !.stats = updateHitRate([stats EXCEPT !.TotalMisses = @ + 1]),
            !.last = Call("Get", r, NoPayload, key, FALSE, NilEntry, FALSE,
                          FALSE, FALSE, EmptyMap, now),
            !.hist = [Counted(hist, FALSE) EXCEPT !.misses = @ + 1]]
    ELSE LET e == Touch(entries[key], now)
         IN  [Here EXCEPT
                !.entries = [entries EXCEPT ![key] = e],
                !.stats = updateHitRate([stats EXCEPT !.TotalHits = @ + 1]),
                !.last = Call("Get", r, NoPayload, key, TRUE, e, FALSE,
                              FALSE, FALSE, EmptyMap, now),
                !.hist = [Counted(hist, FALSE) EXCEPT !.hits = @ + 1]]

\* Get, under the read lock for the whole call.
Get(r) ==
    /\ CanCall
    /\ Leaves(GetBody(r))
    /\ UNCHANGED << config, now, mutex, pc, loc, hasher >>

\* What Set does under the write lock.  An assignment to an entry of the
\* nil map panics; nothing recovers the panic, so the process dies.
SetBody(r, pl, outcome) ==
    LET key == KeyOf[r]
        entry == [Message |-> pl.m, Provider |-> r.p,
                  DiffHash |-> HashOf[r],
                  StyleInstruction |-> getStyleInstruction(r.o),
                  Attempt |-> getAttempt(r.o),
                  CreatedAt |-> Format(now), LastAccessedAt |-> Format(now),
                  AccessCount |-> 1, Cost |-> pl.cost, Tokens |-> pl.tokens]
        ents1 == Put(entries, key, entry)
        st1 == [stats EXCEPT !.TotalEntries = Cardinality(DOMAIN ents1)]
        over == Cardinality(DOMAIN ents1) > config.MaxEntries
        cl == IF over THEN cleanupOldEntries(ents1, st1, config, now)
              ELSE [entries |-> ents1, stats |-> st1]
    IN
    IF entriesNil
    THEN [Here EXCEPT
            !.crashed = TRUE,
            !.last = Call("Set", r, pl, key, FALSE, NilEntry, FALSE, TRUE,
                          FALSE, EmptyMap, now),
            !.hist = Counted(hist, FALSE)]
    ELSE [Here EXCEPT
            !.entries = cl.entries,
            !.stats = cl.stats,
            !.file = saveCache(cl.entries, FALSE, cl.stats, file, outcome),
            !.last = Call("Set", r, pl, key, FALSE, NilEntry,
                          outcome # "ok", FALSE, over,
                          IF over THEN ents1 ELSE EmptyMap, now),
            !.hist = [Counted(hist, outcome # "ok") EXCEPT
                          !.cleared = FALSE]]

\* A save fails only while the run has faults left, and the save of a Set
\* that panics is never reached.
CanSave(outcome) ==
    outcome # "ok" => hist.faults < MaxFaults /\ ~entriesNil

\* Set, under the write lock.
Set(r, pl, outcome) ==
    /\ CanCall
    /\ CanSave(outcome)
    /\ Leaves(SetBody(r, pl, outcome))
    /\ UNCHANGED << config, now, mutex, pc, loc, hasher >>

osRemoveNothing(f, outcome) ==
    IF f.kind = "missing" THEN [file |-> f, err |-> "ENOENT"]
    ELSE [file |-> f, err |-> "nil"]

\* os.Remove(cm.filePath): of a file that is not there it fails with
\* ENOENT; of one that is there it removes it, or fails.
osRemove(f, outcome) ==
    CASE f.kind = "missing" -> [file |-> f, err |-> "ENOENT"]
      [] outcome = "ok" -> [file |-> FileMissing, err |-> "nil"]
      [] OTHER -> [file |-> f, err |-> "EACCES"]

IsNotExist(err) == err = "ENOENT"

ClearFailsAlways(err) == err # "nil"

\* Clear returns an error: os.Remove failed, and not with "file does not
\* exist".
ClearFails(err) == err # "nil" /\ ~IsNotExist(err)

\* What Clear does under the write lock: a new map, zero statistics, and
\* os.Remove.
ClearBody(outcome) ==
    LET rm == osRemove(file, outcome)
        failed == ClearFails(rm.err)
    IN  [Here EXCEPT
            !.entries = EmptyMap,
            !.entriesNil = FALSE,
            !.stats = ZeroStats,
            !.file = rm.file,
            !.last = Plain("Clear", failed, now),
            !.hist = [Counted(hist, rm.err = "EACCES") EXCEPT
                         !.fresh = TRUE, !.hits = 0, !.misses = 0,
                         !.baseHits = 0, !.baseMisses = 0,
                         !.cleared = ~failed,
                         !.clears = IF failed THEN 0 ELSE hist.clears + 1]]

\* A removal fails only of a file that is there, while the run has faults
\* left.
CanRemove(outcome) ==
    /\ outcome \in {"ok", "fail"}
    /\ outcome = "fail" => hist.faults < MaxFaults /\ file.kind # "missing"

\* Clear, under the write lock.
Clear(outcome) ==
    /\ CanCall
    /\ CanRemove(outcome)
    /\ Leaves(ClearBody(outcome))
    /\ UNCHANGED << config, now, mutex, pc, loc, hasher >>

\* What Cleanup does under the write lock: cleanupOldEntries and nothing
\* else.
CleanupBody ==
    LET cl == cleanupOldEntries(entries, stats, config, now) IN
    [Here EXCEPT
        !.entries = cl.entries,
        !.stats = cl.stats,
        !.last = Call("Cleanup", NoReq, NoPayload, NoKey, FALSE, NilEntry,
                      FALSE, FALSE, TRUE, entries, now),
        !.hist = Counted(hist, FALSE)]

\* Cleanup, under the write lock.
Cleanup ==
    /\ CanCall
    /\ Leaves(CleanupBody)
    /\ UNCHANGED << config, now, mutex, pc, loc, hasher >>

GetStatsBodySaves ==
    LET st == calculateStats(entries, stats, file) IN
    [Here EXCEPT
        !.stats = st,
        !.file = saveCache(entries, entriesNil, st, file, "ok"),
        !.last = Plain("GetStats", FALSE, now),
        !.hist = Counted(hist, FALSE)]

\* What GetStats does under the read lock; the copy it returns is the
\* statistics it leaves.
GetStatsBody ==
    [Here EXCEPT
        !.stats = calculateStats(entries, stats, file),
        !.last = Plain("GetStats", FALSE, now),
        !.hist = Counted(hist, FALSE)]

\* GetStats, under the read lock for the whole call.
GetStats ==
    /\ CanCall
    /\ Leaves(GetStatsBody)
    /\ UNCHANGED << config, now, mutex, pc, loc, hasher >>

\* The process ends (or has died) and a new one builds its manager over
\* the file the old one left.
Restart ==
    /\ pc = Idle
    /\ hist.ops < MaxOps
    /\ NewCacheManager(file, now, hist.ops + 1, hist.faults)
    /\ UNCHANGED << config, file, now, hasher >>

\* Time passes.
Tick ==
    /\ now < MaxTime
    /\ now' = now + 1
    /\ UNCHANGED << entries, entriesNil, stats, config, file, crashed, last,
                    hist, mutex, pc, loc, hasher >>

Next ==
    \/ \E r \in Requests : Get(r)
    \/ \E r \in Requests, pl \in Payloads, o \in SaveOutcomes : Set(r, pl, o)
    \/ \E o \in {"ok", "fail"} : Clear(o)
    \/ Cleanup
    \/ GetStats
    \/ Restart
    \/ Tick

Spec == Init /\ [][Next]_vars

\* The calls of a caller that regenerates: Get and Set of one diff at
\* attempts 1 to 3, with Cleanup and the passage of time in between.
NextRegen ==
    \/ \E r \in Regenerations : Get(r)
    \/ \E r \in Regenerations, pl \in Payloads, outcome \in SaveOutcomes :
           Set(r, pl, outcome)
    \/ Cleanup
    \/ Tick

SpecRegen == Init /\ [][NextRegen]_vars

\* ------------------------------------------------------------------------
\* CacheManager: concurrent callers of Get and GetStats
\* ------------------------------------------------------------------------
\* Get and GetStats take cm.mutex.RLock(), which any number of callers can
\* hold together.  Each caller's reads and writes of the shared fields are
\* separate steps; an increment is a read followed by a write.

Threads == 1..NumThreads

Goto(t, label) == pc' = [pc EXCEPT ![t] = label]

Frame == << entriesNil, config, file, now, crashed, hasher >>

\* cm.mutex.RLock(), GenerateCacheKey and the map lookup
GetRLock(t, r) ==
    /\ pc[t] = "idle"
    /\ ~crashed
    /\ hist.ops < MaxOps
    /\ ~mutex.writer
    /\ mutex' = [mutex EXCEPT !.readers = @ \cup {t}]
    /\ loc' = [loc EXCEPT ![t] =
                  [op |-> "Get", req |-> r, key |-> KeyOf[r],
                   exists |-> KeyOf[r] \in DOMAIN entries, tmp |-> 0,
                   rate |-> << 0, 1 >>]]
    /\ Goto(t, IF KeyOf[r] \in DOMAIN entries THEN "stamp" ELSE "missRead")
    /\ hist' = [hist EXCEPT !.ops = @ + 1]
    /\ UNCHANGED << entries, stats, last >>
    /\ UNCHANGED Frame

\* cm.stats.TotalMisses++
GetMissRead(t) ==
    /\ pc[t] = "missRead"
    /\ loc' = [loc EXCEPT ![t].tmp = stats.TotalMisses]
    /\ Goto(t, "missWrite")
    /\ UNCHANGED << entries, stats, last, hist, mutex >>
    /\ UNCHANGED Frame

GetMissWrite(t) ==
    /\ pc[t] = "missWrite"
    /\ stats' = [stats EXCEPT !.TotalMisses = loc[t].tmp + 1]
    /\ Goto(t, "rateRead")
    /\ UNCHANGED << entries, last, hist, mutex, loc >>
    /\ UNCHANGED Frame

\* entry.LastAccessedAt = time.Now().Format(time.RFC3339)
GetStamp(t) ==
    /\ pc[t] = "stamp"
    /\ entries' = [entries EXCEPT ![loc[t].key].LastAccessedAt = Format(now)]
    /\ Goto(t, "countRead")
    /\ UNCHANGED << stats, last, hist, mutex, loc >>
    /\ UNCHANGED Frame

\* entry.AccessCount++
GetCountRead(t) ==
    /\ pc[t] = "countRead"
    /\ loc' = [loc EXCEPT ![t].tmp = entries[loc[t].key].AccessCount]
    /\ Goto(t, "countWrite")
    /\ UNCHANGED << entries, stats, last, hist, mutex >>
    /\ UNCHANGED Frame

GetCountWrite(t) ==
    /\ pc[t] = "countWrite"
    /\ entries' = [entries EXCEPT ![loc[t].key].AccessCount = loc[t].tmp + 1]
    /\ Goto(t, "hitRead")
    /\ UNCHANGED << stats, last, hist, mutex, loc >>
    /\ UNCHANGED Frame

\* cm.stats.TotalHits++
GetHitRead(t) ==
    /\ pc[t] = "hitRead"
    /\ loc' = [loc EXCEPT ![t].tmp = stats.TotalHits]
    /\ Goto(t, "hitWrite")
    /\ UNCHANGED << entries, stats, last, hist, mutex >>
    /\ UNCHANGED Frame

GetHitWrite(t) ==
    /\ pc[t] = "hitWrite"
    /\ stats' = [stats EXCEPT !.TotalHits = loc[t].tmp + 1]
    /\ Goto(t, "rateRead")
    /\ UNCHANGED << entries, last, hist, mutex, loc >>
    /\ UNCHANGED Frame

\* cm.updateHitRate(): the two counters are read, then HitRate is written
GetRateRead(t) ==
    /\ pc[t] = "rateRead"
    /\ loc' = [loc EXCEPT ![t].rate = updateHitRate(stats).HitRate]
    /\ Goto(t, "rateWrite")
    /\ UNCHANGED << entries, stats, last, hist, mutex >>
    /\ UNCHANGED Frame

GetRateWrite(t) ==
    /\ pc[t] = "rateWrite"
    /\ stats' = [stats EXCEPT !.HitRate = loc[t].rate]
    /\ Goto(t, "return")
    /\ UNCHANGED << entries, last, hist, mutex, loc >>
    /\ UNCHANGED Frame

\* return, and the deferred cm.mutex.RUnlock()
GetReturn(t) ==
    /\ pc[t] = "return"
    /\ mutex' = [mutex EXCEPT !.readers = @ \ {t}]
    /\ last' = Call("Get", loc[t].req, NoPayload, loc[t].key, loc[t].exists,
                    IF loc[t].exists THEN entries[loc[t].key] ELSE NilEntry,
                    FALSE, FALSE, FALSE, EmptyMap, now)
    /\ hist' = IF loc[t].exists THEN [hist EXCEPT !.hits = @ + 1]
               ELSE [hist EXCEPT !.misses = @ + 1]
    /\ loc' = [loc EXCEPT ![t] = NoLocals[t]]
    /\ Goto(t, "idle")
    /\ UNCHANGED << entries, stats >>
    /\ UNCHANGED Frame

\* GetStats: cm.mutex.RLock()
StatsRLock(t) ==
    /\ pc[t] = "idle"
    /\ ~crashed
    /\ hist.ops < MaxOps
    /\ ~mutex.writer
    /\ mutex' = [mutex EXCEPT !.readers = @ \cup {t}]
    /\ loc' = [loc EXCEPT ![t].op = "GetStats"]
    /\ Goto(t, "calc")
    /\ hist' = [hist EXCEPT !.ops = @ + 1]
    /\ UNCHANGED << entries, stats, last >>
    /\ UNCHANGED Frame

\* cm.calculateStats()
StatsCalc(t) ==
    /\ pc[t] = "calc"
    /\ stats' = calculateStats(entries, stats, file)
    /\ Goto(t, "copy")
    /\ UNCHANGED << entries, last, hist, mutex, loc >>
    /\ UNCHANGED Frame

\* statsCopy := *cm.stats, return, and the deferred RUnlock
StatsReturn(t) ==
    /\ pc[t] = "copy"
    /\ mutex' = [mutex EXCEPT !.readers = @ \ {t}]
    /\ last' = Plain("GetStats", FALSE, now)
    /\ loc' = [loc EXCEPT ![t] = NoLocals[t]]
    /\ Goto(t, "idle")
    /\ UNCHANGED << entries, stats, hist >>
    /\ UNCHANGED Frame

NextConc ==
    \E t \in Threads :
        \/ \E r \in Requests : GetRLock(t, r)
        \/ GetMissRead(t)
        \/ GetMissWrite(t)
        \/ GetStamp(t)
        \/ GetCountRead(t)
        \/ GetCountWrite(t)
        \/ GetHitRead(t)
        \/ GetHitWrite(t)
        \/ GetRateRead(t)
        \/ GetRateWrite(t)
        \/ GetReturn(t)
        \/ StatsRLock(t)
        \/ StatsCalc(t)
        \/ StatsReturn(t)

SpecConc == Init /\ [][NextConc]_vars

TypeOK == now \in 0..MaxTime

\* ------------------------------------------------------------------------
\* CacheManager: concurrent callers of every operation, and the lock
\* ------------------------------------------------------------------------
\* Every operation takes cm.mutex first (RLock in Get and GetStats, Lock
\* in Set, Clear and Cleanup), defers the matching unlock, runs its body
\* and returns.  A caller is at "idle" between calls, at "lock" while it
\* waits for the mutex, at "body" while it holds it and at "unlock" when
\* its body is done and the deferred unlock is due.

Readers == {"Get", "GetStats"}

Writers == {"Set", "Clear", "Cleanup"}

Locking(ops) == {t \in Threads : pc[t] = "lock" /\ loc[t].op \in ops}

\* A caller enters an operation.
Enter(t, op, r, pl) ==
    /\ pc[t] = "idle"
    /\ ~crashed
    /\ hist.ops + Cardinality({u \in Threads : pc[u] # "idle"}) < MaxOps
    /\ loc' = [loc EXCEPT ![t] = [op |-> op, req |-> r, payload |-> pl]]
    /\ Goto(t, "lock")
    /\ UNCHANGED << entries, stats, last, hist, mutex >>
    /\ UNCHANGED Frame

\* cm.mutex.RLock(): granted when no writer holds the mutex and none is
\* waiting for it.
RLock(t) ==
    /\ pc[t] = "lock"
    /\ ~crashed
    /\ loc[t].op \in Readers
    /\ ~mutex.writer
    /\ Locking(Writers) = {}
    /\ mutex' = [mutex EXCEPT !.readers = @ \cup {t}]
    /\ Goto(t, "body")
    /\ UNCHANGED << entries, stats, last, hist, loc >>
    /\ UNCHANGED Frame

\* cm.mutex.Lock(): granted when nobody holds the mutex.
Lock(t) ==
    /\ pc[t] = "lock"
    /\ ~crashed
    /\ loc[t].op \in Writers
    /\ mutex = Unlocked
    /\ mutex' = [mutex EXCEPT !.writer = TRUE]
    /\ Goto(t, "body")
    /\ UNCHANGED << entries, stats, last, hist, loc >>
    /\ UNCHANGED Frame

\* The body of the operation, run while the mutex is held; each body is
\* straight-line code and loops over the entries of the map.
Run(t) ==
    /\ pc[t] = "body"
    /\ ~crashed
    /\ CASE loc[t].op = "Get" -> Leaves(GetBody(loc[t].req))
         [] loc[t].op = "GetStats" -> Leaves(GetStatsBody)
         [] loc[t].op = "Cleanup" -> Leaves(CleanupBody)
         [] loc[t].op = "Set" ->
                \E outcome \in SaveOutcomes :
                    /\ CanSave(outcome)
                    /\ Leaves(SetBody(loc[t].req, loc[t].payload, outcome))
         [] loc[t].op = "Clear" ->
                \E outcome \in {"ok", "fail"} :
                    /\ CanRemove(outcome)
                    /\ Leaves(ClearBody(outcome))
    /\ Goto(t, "unlock")
    /\ UNCHANGED << config, now, mutex, loc, hasher >>

\* defer cm.mutex.RUnlock() / defer cm.mutex.Unlock(), and the return.  A
\* Set that has panicked has ended the process instead.
Unlock(t) ==
    /\ pc[t] = "unlock"
    /\ ~crashed
    /\ mutex' = [readers |-> mutex.readers \ {t},
                 writer |-> mutex.writer /\ loc[t].op \in Readers]
    /\ loc' = [loc EXCEPT ![t] = NoLocals[t]]
    /\ Goto(t, "idle")
    /\ UNCHANGED << entries, stats, last, hist >>
    /\ UNCHANGED Frame

NextLive ==
    \/ \E t \in Threads, r \in Requests : Enter(t, "Get", r, NoPayload)
    \/ \E t \in Threads, r \in Requests, pl \in Payloads :
           Enter(t, "Set", r, pl)
    \/ \E t \in Threads, op \in {"Clear", "Cleanup", "GetStats"} :
           Enter(t, op, NoReq, NoPayload)
    \/ \E t \in Threads : RLock(t)
    \/ \E t \in Threads : Lock(t)
    \/ \E t \in Threads : Run(t)
    \/ \E t \in Threads : Unlock(t)

\* The scheduler runs every goroutine that can take a step (a caller past
\* Enter has exactly one next step); nothing obliges a caller to start
\* another call.
Step(t) == RLock(t) \/ Lock(t) \/ Run(t) \/ Unlock(t)

Fairness == \A t \in Threads : WF_vars(Step(t))

SpecLive == Init /\ [][NextLive]_vars /\ Fairness

\* ------------------------------------------------------------------------
\* DiffHasher applied to two diffs: d, and e, which is d with one thing
\* rewritten
\* ------------------------------------------------------------------------

MaxLines == 2

\* The lines diffs are made of: an added x, a removed y, a context line, an
\* indented added "++x", two added lines with a "/" in them, a hunk header,
\* a "diff --git" header and a blank line.
HashLines ==
    { << "+", "x" >>,
      << "-", "y" >>,
      << " ", "x" >>,
      << "+", " ", "+", "+", "x" >>,
      << "+", "x", "/", "y" >>,
      << "-", "y", "/" >>,
      << "@", "@", " ", "x" >>,
      << "diff --git", " ", "x" >>,
      << " " >> }

HashDiffs == UNION { [1..n -> HashLines] : n \in 1..MaxLines }

HashOpts == { NilOpts, Opt(<< "x" >>, 1), Opt(<< >>, 2), Opt(<< "y" >>, 2) }

\* Style instructions, none of them empty.
HashStyles == { << "x" >>, << "y" >>, << " ", "x" >>, << "x", " " >>, << " " >> }

\* The text of a diff: its lines, each but the last ended by a newline.
Text(lines) == Join(lines, "\n")

\* A line of only whitespace.
IsBlankLine(l) == \A i \in 1..Len(l) : IsSpace(l[i])

\* A line that starts as the headers git prints do.
IsHeaderLine(l) ==
    \E h \in { << "diff --git" >>, << "index " >>, << "+", "+", "+" >>,
                << "-", "-", "-" >>, << "@", "@" >> } : HasPrefix(l, h)

\* A line that starts with "+" or "-".
IsChangeLine(l) == l # << >> /\ l[1] \in {"+", "-"}

\* A "+" or "-" line with a "/" in it.
IsPathLine(l) == IsChangeLine(l) /\ \E i \in 1..Len(l) : l[i] = "/"

IsNoiseLine(l) == IsBlankLine(l) \/ IsHeaderLine(l) \/ IsPathLine(l)

NoiseLines == { l \in HashLines : IsNoiseLine(l) }

Spaces == { << >>, << " " >> }

InsertAt(s, i, l) == SubSeq(s, 1, i - 1) \o << l >> \o SubSeq(s, i, Len(s))

RemoveAt(s, i) == SubSeq(s, 1, i - 1) \o SubSeq(s, i + 1, Len(s))

CacheVars == << entries, entriesNil, stats, config, file, now, crashed,
                last, hist, mutex, pc, loc >>

InitHash ==
    /\ config = [MaxEntries |-> MaxCap, MaxAgeDays |-> MaxAgeBound]
    /\ file = FileMissing
    /\ now = 0
    /\ entries = EmptyMap
    /\ entriesNil = FALSE
    /\ stats = ZeroStats
    /\ crashed = FALSE
    /\ last = Built(loadCache(FileMissing), 0)
    /\ hist = NewHist(loadCache(FileMissing), 0, 0)
    /\ mutex = Unlocked
    /\ pc = Idle
    /\ loc = NoLocals
    /\ \E d \in HashDiffs, o \in HashOpts :
           hasher = [NoHasher EXCEPT !.d = d, !.e = d, !.o = o, !.o2 = o]

\* e is rewritten, by a rewriting of the given kind.
Rewritten(e2, kind) ==
    /\ ~hasher.done
    /\ hasher.edits = {}
    /\ e2 # hasher.e
    /\ hasher' = [hasher EXCEPT !.e = e2, !.edits = {kind}]
    /\ UNCHANGED CacheVars

\* Two lines of e change places.
PermuteLines(i, j) ==
    /\ i < j
    /\ j <= Len(hasher.e)
    /\ Rewritten([hasher.e EXCEPT ![i] = hasher.e[j], ![j] = hasher.e[i]],
                 "perm")

\* e gains a blank line, a header line or a "+"/"-" line with a "/" in it.
InsertNoise(i, l) ==
    /\ i <= Len(hasher.e) + 1
    /\ l \in NoiseLines
    /\ Rewritten(InsertAt(hasher.e, i, l), "noise")

\* e loses such a line.
DeleteNoise(i) ==
    /\ i <= Len(hasher.e)
    /\ Len(hasher.e) > 1
    /\ IsNoiseLine(hasher.e[i])
    /\ Rewritten(RemoveAt(hasher.e, i), "noise")

\* The whitespace around the content of a "+" or "-" line of e changes.
Respace(i, before, after) ==
    /\ i <= Len(hasher.e)
    /\ IsChangeLine(hasher.e[i])
    /\ Rewritten([hasher.e EXCEPT ![i] =
                     << @[1] >> \o before \o TrimSpace(Tail(@)) \o after],
                 "space")

\* A line of e becomes another line.
ReplaceLine(i, l) ==
    /\ i <= Len(hasher.e)
    /\ l \in HashLines
    /\ Rewritten([hasher.e EXCEPT ![i] = l], "content")

\* The second request asks for another style, of the same diff and on the
\* same attempt.
Restyle(s) ==
    /\ ~hasher.done
    /\ hasher.edits = {}
    /\ hasher.o # NilOpts
    /\ hasher.o.StyleInstruction # << >>
    /\ s # hasher.o.StyleInstruction
    /\ hasher' = [hasher EXCEPT
                    !.o2 = [hasher.o EXCEPT !.StyleInstruction = s],
                    !.edits = {"style"}]
    /\ UNCHANGED CacheVars

\* GenerateHash and GenerateCacheKey of d under the options o and of e
\* under the options o2.
HashBoth ==
    /\ ~hasher.done
    /\ hasher' = [hasher EXCEPT
                    !.done = TRUE,
                    !.h1 = GenerateHash(Text(hasher.d), hasher.o),
                    !.h2 = GenerateHash(Text(hasher.e), hasher.o2),
                    !.k1 = GenerateCacheKey("OpenAI", Text(hasher.d), hasher.o),
                    !.k2 = GenerateCacheKey("OpenAI", Text(hasher.e), hasher.o2)]
    /\ UNCHANGED CacheVars

NextHash ==
    \/ \E s \in HashStyles : Restyle(s)
    \/ \E i, j \in 1..MaxLines : PermuteLines(i, j)
    \/ \E i \in 1..(MaxLines + 1), l \in NoiseLines :
           InsertNoise(i, l)
    \/ \E i \in 1..MaxLines : DeleteNoise(i)
    \/ \E i \in 1..MaxLines, b \in Spaces, a \in Spaces :
           Respace(i, b, a)
    \/ \E i \in 1..MaxLines, l \in HashLines : ReplaceLine(i, l)
    \/ HashBoth

SpecHash == InitHash /\ [][NextHash]_vars

\* ------------------------------------------------------------------------
\* Properties
\* ------------------------------------------------------------------------

\* An entry's CreatedAt is a timestamp more than MaxAgeDays before tick t.
TooOld(e, t) ==
    /\ Len(e.CreatedAt) = 2
    /\ t - e.CreatedAt[2] * TicksPerSecond
           > config.MaxAgeDays * SecondsPerDay * TicksPerSecond

Malformed(e) == Len(e.CreatedAt) # 2

\* The entries of the map an eviction run started from that were neither
\* too old nor malformed.
LiveBefore ==
    {k \in DOMAIN last.before :
        ~TooOld(last.before[k], last.t) /\ ~Malformed(last.before[k])}

Returned == last.op \in {"Set", "Cleanup"} /\ ~last.panic

\* C1: a Get that follows a Set of the same provider, diff and options
\* (attempt <= 1) finds the entry, and the entry has the message, the
\* provider and the cost that were set.
C1_SetGetRoundTrip ==
    [][ ( /\ last.op = "Set" /\ ~last.panic
          /\ getAttempt(last.req.o) <= 1
          /\ config.MaxEntries >= 1
          /\ last'.op = "Get"
          /\ last'.req = last.req )
        => ( /\ last'.found
             /\ last'.ret.Message = last.payload.m
             /\ last'.ret.Provider = last.req.p
             /\ last'.ret.Cost = last.payload.cost ) ]_vars

\* A run of exactly two calls, a Set of "fix: Y" and then a Get that
\* returns it.
C1_Witness ==
    /\ last.op = "Get" /\ last.found
    /\ getAttempt(last.req.o) <= 1
    /\ hist.ops = 2
    /\ last.ret.Message = "fix: Y"
    /\ last.ret.AccessCount = 2

\* C2: when Set or Cleanup has returned, the map holds at most MaxEntries
\* entries.
C2_CapacityBound ==
    Returned => Cardinality(DOMAIN entries) <= config.MaxEntries

\* C3: an eviction run that starts with r > MaxEntries live entries removes
\* exactly the r - MaxEntries of them that were accessed least recently.
C3_LruVictims ==
    (last.evicted /\ Cardinality(LiveBefore) > config.MaxEntries) =>
        LET removed == LiveBefore \ DOMAIN entries IN
        /\ Cardinality(removed) = Cardinality(LiveBefore) - config.MaxEntries
        /\ \A a \in removed, b \in LiveBefore \ removed :
              last.before[a].LastAccessedAt[2] <= last.before[b].LastAccessedAt[2]

\* C4: when Cleanup has returned, no entry created more than MaxAgeDays
\* before the time of the call is in the map.
C4_AgeExpiry ==
    last.op = "Cleanup" =>
        \A k \in DOMAIN entries : ~TooOld(entries[k], last.t)

\* Cleanup removed an entry that was too old and that a Get had just hit.
C4_Witness ==
    /\ last.op = "Cleanup"
    /\ \E k \in DOMAIN last.before :
          /\ TooOld(last.before[k], last.t)
          /\ last.before[k].AccessCount >= 2
          /\ last.before[k].LastAccessedAt = << "ts", last.t \div TicksPerSecond >>
          /\ k \notin DOMAIN entries

\* C5: an eviction run that starts with at most MaxEntries live entries
\* removes none of them.
C5_AgeBeforeLru ==
    (last.evicted /\ Cardinality(LiveBefore) <= config.MaxEntries) =>
        LiveBefore \subseteq DOMAIN entries

\* An eviction run removed an entry and kept a live one.
C5_Witness ==
    /\ last.evicted
    /\ LiveBefore # {}
    /\ Cardinality(LiveBefore) <= config.MaxEntries
    /\ (DOMAIN last.before) \ (DOMAIN entries) # {}

\* C6: an eviction run leaves no entry with a malformed CreatedAt, and it
\* fails neither by a panic nor by an error other than a failed save.
C6_MalformedEvicted ==
    last.evicted =>
        /\ \A k \in DOMAIN entries : ~Malformed(entries[k])
        /\ ~last.panic
        /\ last.op = "Cleanup" => ~last.err
        /\ last.err => hist.faults >= 1

\* An eviction run started from a map with a malformed CreatedAt.
C6_Witness ==
    /\ last.evicted
    /\ \E k \in DOMAIN last.before : Malformed(last.before[k])

\* C7: from a fresh or cleared cache, the counters are the numbers of Gets
\* that hit and that missed, and HitRate is hits / (hits + misses).
C7_HitMissAccounting ==
    (hist.fresh /\ pc = Idle) =>
        /\ stats.TotalHits = hist.hits
        /\ stats.TotalMisses = hist.misses
        /\ hist.hits + hist.misses > 0 =>
              stats.HitRate[1] * (hist.hits + hist.misses)
                  = hist.hits * stats.HitRate[2]

\* One hit and one miss since the cache was fresh.
C7_Witness ==
    /\ hist.fresh
    /\ hist.hits = 1 /\ hist.misses = 1
    /\ last.op = "Get"

RECURSIVE SumAccess(_, _)
SumAccess(ents, keys) ==
    IF keys = {} THEN 0
    ELSE LET k == CHOOSE x \in keys : TRUE
         IN  ents[k].AccessCount + SumAccess(ents, keys \ {k})

\* The callers that are inside Get.
InGet == {t \in Threads : pc[t] # "idle" /\ loc[t].op = "Get"}

\* C8: no two callers are inside Get together, and when no call is in
\* progress the counters have grown by the number of Gets and the access
\* counts by the number of hits.
C8_GetExclusive ==
    /\ Cardinality(InGet) <= 1
    /\ pc = Idle =>
          /\ stats.TotalHits + stats.TotalMisses
                = hist.baseHits + hist.baseMisses + hist.hits + hist.misses
          /\ SumAccess(entries, DOMAIN entries)
                = Cardinality(DOMAIN entries) + hist.hits

\* C9: the keys of two requests with different providers differ, and a Get
\* that hits returns an entry stored under the provider it asked for.
C9_ProviderNamespacing ==
    /\ \A r1 \in Requests, r2 \in Requests :
          r1.p # r2.p => KeyOf[r1] # KeyOf[r2]
    /\ (last.op = "Get" /\ last.found) => last.ret.Provider = last.req.p

\* A Get missed although the same diff and options are stored under
\* another provider.
C9_Witness ==
    /\ last.op = "Get" /\ ~last.found
    /\ \E r \in Requests :
          /\ r.p # last.req.p /\ r.d = last.req.d /\ r.o = last.req.o
          /\ KeyOf[r] \in DOMAIN entries
          /\ entries[KeyOf[r]].Provider = r.p

\* C10: a Get with attempt > 1 never returns an entry that a Set with
\* attempt <= 1 stored.
C10_RegenerationNeverHits ==
    (last.op = "Get" /\ last.found /\ getAttempt(last.req.o) > 1) =>
        last.ret.Attempt > 1

\* The message, the provider and the cost of an entry.
Content(e) == << e.Message, e.Provider, e.Cost >>

\* C11: a manager built over the file a successful Set left holds the keys
\* the first manager held, each with the same message, provider and cost;
\* and a Get on a manager just built finds every key it holds, with the
\* message, provider and cost the manager loaded.
C11_RoundTripPersistence ==
    [][ /\ (last.op = "Set" /\ ~last.err /\ ~last.panic /\ last'.op = "New")
            => /\ DOMAIN entries' = DOMAIN entries
               /\ \A k \in DOMAIN entries :
                      Content(entries'[k]) = Content(entries[k])
        /\ (last.op = "New" /\ last'.op = "Get"
               /\ last'.key \in DOMAIN entries)
            => /\ last'.found
               /\ Content(last'.ret) = Content(entries[last'.key]) ]_vars

\* A manager built after one successful Set holds the entry that was set.
C11_Witness ==
    /\ last.op = "New"
    /\ hist.ops = 2
    /\ hist.faults = 0
    /\ \E k \in DOMAIN entries : entries[k].Message = "fix: Y"

\* C12: after a Set, a Clear or a Cleanup that returned no error, a manager
\* that loads the file holds exactly the keys in memory.
C12_FlushedOnEveryWrite ==
    (last.op \in {"Set", "Clear", "Cleanup"} /\ ~last.err /\ ~last.panic)
        => DOMAIN loadCache(file).entries = DOMAIN entries

\* C13: after a Clear that returned no error the map is empty, every
\* statistic is zero and the file does not exist; and until the next Set
\* the map stays empty and every Get misses.
C13_ClearPostState ==
    /\ (last.op = "Clear" /\ ~last.err)
           => /\ entries = EmptyMap
              /\ ~entriesNil
              /\ stats = ZeroStats
              /\ file.kind = "missing"
    /\ hist.cleared
           => /\ entries = EmptyMap
              /\ last.op = "Get" => ~last.found

\* A Get of the key the file held, after a Clear, misses.
C13_Witness ==
    /\ hist.cleared
    /\ last.op = "Get"
    /\ last.req = FirstReq
    /\ ~last.found
    /\ stats.TotalMisses = 1

\* C14: a Clear that finds no file returns no error and leaves an empty
\* map, zero statistics and no file.
C14_ClearIdempotent ==
    [][ (file.kind = "missing" /\ last'.op = "Clear")
            => /\ ~last'.err
               /\ entries' = EmptyMap
               /\ ~entriesNil'
               /\ stats' = ZeroStats
               /\ file'.kind = "missing" ]_vars

\* Two Clears in a row have both returned no error.
C14_Witness ==
    /\ last.op = "Clear"
    /\ hist.clears = 2
    /\ ~last.err
    /\ file.kind = "missing"

\* C15: a Set whose save failed returns an error, and leaves its entry in
\* the map and TotalEntries at the size of the map; a Get of the same
\* request that follows finds the entry.
C15_SaveFailureKeepsMemory ==
    [][ /\ (last'.op = "Set" /\ last'.err)
            => /\ last'.key \in DOMAIN entries'
               /\ entries'[last'.key].Message = last'.payload.m
               /\ entries'[last'.key].Cost = last'.payload.cost
               /\ stats'.TotalEntries = Cardinality(DOMAIN entries')
        /\ (last.op = "Set" /\ last.err /\ last'.op = "Get"
               /\ last'.req = last.req)
            => /\ last'.found
               /\ last'.ret.Message = last.payload.m ]_vars

\* A Get has found the entry of a Set whose save failed; the file does
\* not hold it.
C15_Witness ==
    /\ last.op = "Get"
    /\ last.found
    /\ last.ret.Message = "fix: Y"
    /\ hist.faults = 1
    /\ hist.ops = 2
    /\ \A k \in DOMAIN loadCache(file).entries :
           loadCache(file).entries[k].Message # "fix: Y"

\* C16: a manager built over a file that is missing, unreadable or not
\* JSON comes with no error, a map that is empty and not nil, and zero
\* statistics.
C16_LoadBestEffort ==
    (last.op = "New" /\ file.kind \in {"missing", "unreadable", "malformed"})
        => /\ ~last.err
           /\ ~crashed
           /\ ~entriesNil
           /\ entries = EmptyMap
           /\ stats = ZeroStats

\* A manager was built over a file a failed write had left truncated.
C16_Witness ==
    /\ last.op = "New"
    /\ file.kind = "malformed"
    /\ last.ret.warning
    /\ hist.faults = 1

\* C17: a Set ends without a panic, with its entry in the map, and with an
\* error only when the save failed.
C17_SetInsertCannotFail ==
    last.op = "Set"
        => /\ ~last.panic
           /\ ~crashed
           /\ last.key \in DOMAIN entries
           /\ last.err => hist.faults >= 1

\* Both diffs have been hashed, and e is d rewritten in one of the given
\* ways.
Hashed(kinds) == hasher.done /\ hasher.edits # {} /\ hasher.edits \subseteq kinds

SameDigest == hasher.h1 = hasher.h2 /\ hasher.k1 = hasher.k2

\* C18: a diff and the diff with two of its lines exchanged have the same
\* hash and, under one provider, the same cache key, whatever the options.
C18_OrderInsensitive == Hashed({"perm"}) => SameDigest

\* "+x" before "-y" and "-y" before "+x" have been hashed.
C18_Witness ==
    /\ Hashed({"perm"})
    /\ hasher.d = << << "+", "x" >>, << "-", "y" >> >>
    /\ hasher.e = << << "-", "y" >>, << "+", "x" >> >>

\* C19: a diff and the diff that has one more or one fewer blank line,
\* header line or "+"/"-" line with a "/" in it, or other whitespace
\* around the content of a "+"/"-" line, have the same hash and the same
\* cache key.
C19_NoiseInsensitive == Hashed({"noise", "space"}) => SameDigest

\* A line as it counts for the content of a diff: without the whitespace
\* around it and, after a "+" or "-", around what follows.
TrimLine(l) ==
    LET t == TrimSpace(l) IN
    IF IsChangeLine(t) THEN << t[1] >> \o TrimSpace(Tail(t)) ELSE t

IsContentLine(l) == ~IsBlankLine(l) /\ ~IsHeaderLine(l)

IsRetainedLine(l) == IsContentLine(l) /\ ~IsPathLine(l)

\* The added, removed and context lines of a diff.
ContentLines(lines) ==
    LET kept == SelectSeq(lines, IsContentLine)
    IN  [i \in 1..Len(kept) |-> TrimLine(kept[i])]

\* Those of them that are not "+"/"-" lines with a "/" in them.
RetainedLines(lines) ==
    LET kept == SelectSeq(lines, IsRetainedLine)
    IN  [i \in 1..Len(kept) |-> TrimLine(kept[i])]

\* Two sequences hold the same lines, each as often.
SameLines(a, b) ==
    \A l \in {a[i] : i \in 1..Len(a)} \cup {b[i] : i \in 1..Len(b)} :
        Cardinality({i \in 1..Len(a) : a[i] = l})
            = Cardinality({i \in 1..Len(b) : b[i] = l})

\* C20, as stated: two diffs whose added, removed or context lines differ
\* have different hashes under the same options.
C20_CollisionAvoidance ==
    (hasher.done /\ ~SameLines(ContentLines(hasher.d), ContentLines(hasher.e)))
        => hasher.h1 # hasher.h2

\* C20, amended: two diffs have different hashes under the same options
\* when they differ in the lines that are left once the blank lines, the
\* header lines and the "+"/"-" lines with a "/" in them are dropped.
C20_RetainedLinesDistinguish ==
    (hasher.done
        /\ ~SameLines(RetainedLines(hasher.d), RetainedLines(hasher.e)))
        => hasher.h1 # hasher.h2

\* "+x" and "-y" have been hashed.
C20_Witness ==
    /\ hasher.done
    /\ hasher.d = << << "+", "x" >> >>
    /\ hasher.e = << << "-", "y" >> >>
    /\ hasher.h1 # hasher.h2

\* C21, as stated: the same diff on the same attempt under two different
\* non-empty style instructions has two different hashes.
C21_StyleSensitive == Hashed({"style"}) => hasher.h1 # hasher.h2

\* C21, amended: the same diff on the same attempt under two style
\* instructions that still differ once the whitespace around them is
\* trimmed has two different hashes and two different cache keys.
C21_TrimmedStyleSensitive ==
    (Hashed({"style"})
        /\ TrimSpace(hasher.o.StyleInstruction)
              # TrimSpace(hasher.o2.StyleInstruction))
        => hasher.h1 # hasher.h2 /\ hasher.k1 # hasher.k2

\* A diff has been hashed under the styles "x" and "y".
C21_Witness ==
    /\ Hashed({"style"})
    /\ hasher.o.StyleInstruction = << "x" >>
    /\ hasher.o2.StyleInstruction = << "y" >>
    /\ hasher.h1 # hasher.h2

C23_CostSavedIsSum ==
    last.op = "GetStats"
        => stats.TotalCostSaved = SumCost(entries, DOMAIN entries)

\* C24: TotalEntries is the number of entries in the map, in every state
\* and so in what GetStats returns.
C24_EntryCountMatches == stats.TotalEntries = Cardinality(DOMAIN entries)

\* GetStats has returned after a Set, with an entry to count.
C24_Witness ==
    /\ last.op = "GetStats"
    /\ hist.ops = 2
    /\ stats.TotalEntries >= 1
    /\ \E k \in DOMAIN entries : entries[k].Message = "fix: Y"

\* C25: a Set of a key the map already holds leaves the number of entries
\* as it was, and leaves under that key an entry with the new message,
\* cost and tokens, an access count of 1 and both timestamps at the time
\* of this Set.
C25_SetOverwrites ==
    [][ ( /\ hist'.ops = hist.ops + 1
          /\ last'.op = "Set" /\ ~last'.panic
          /\ last'.key \in DOMAIN entries )
        => ( /\ Cardinality(DOMAIN entries') = Cardinality(DOMAIN entries)
             /\ last'.key \in DOMAIN entries'
             /\ LET e == entries'[last'.key] IN
                    /\ e.Message = last'.payload.m
                    /\ e.Cost = last'.payload.cost
                    /\ e.Tokens = last'.payload.tokens
                    /\ e.AccessCount = 1
                    /\ e.CreatedAt = Format(last'.t)
                    /\ e.LastAccessedAt = Format(last'.t) ) ]_vars

\* C26: a Get adds and removes no key; a miss leaves the map as it was; a
\* hit changes, in the entry it found, LastAccessedAt and AccessCount
\* (by exactly one) and nothing else, and leaves every other entry as it
\* was.
C26_GetFrame ==
    [][ ( hist'.ops = hist.ops + 1 /\ last'.op = "Get" )
        => ( /\ DOMAIN entries' = DOMAIN entries
             /\ last'.found = (last'.key \in DOMAIN entries)
             /\ ~last'.found => entries' = entries
             /\ \A k \in DOMAIN entries :
                    IF k = last'.key
                    THEN /\ entries'[k].AccessCount
                               = entries[k].AccessCount + 1
                         /\ entries'[k] =
                               [entries[k] EXCEPT
                                  !.AccessCount = entries'[k].AccessCount,
                                  !.LastAccessedAt =
                                      entries'[k].LastAccessedAt]
                    ELSE entries'[k] = entries[k] ) ]_vars

\* A Get has hit one of two entries, later than the entry was created.
C26_Witness ==
    /\ last.op = "Get"
    /\ last.found
    /\ Cardinality(DOMAIN entries) = 2
    /\ last.ret.AccessCount = 2
    /\ last.ret.LastAccessedAt # last.ret.CreatedAt

\* C28: Get and GetStats leave the file as it is, and a manager built
\* right after them holds the entries and the statistics of that file,
\* not those the calls left in memory.
C28_ReadsNeverWrite ==
    [][ /\ ( hist'.ops = hist.ops + 1 /\ last'.op \in {"Get", "GetStats"} )
            => file' = file
        /\ ( last.op \in {"Get", "GetStats"} /\ last'.op = "New" )
            => /\ entries' = loadCache(file).entries
               /\ stats' = loadCache(file).stats ]_vars

\* A Get has hit an entry and counted the hit, and the file still holds
\* the entry with its first access count and the statistics without the
\* hit.
C28_Witness ==
    /\ last.op = "Get"
    /\ last.found
    /\ entries[last.key].AccessCount = 2
    /\ stats.TotalHits = 1
    /\ file.kind = "json"
    /\ last.key \in DOMAIN file.entries
    /\ UnmarshalEntry(file.entries[last.key]).AccessCount = 1
    /\ file.stats.TotalHits = 0

\* C29: a Get finds every key the map holds, whatever the age of its
\* entry and whether or not its CreatedAt parses; and an entry that is
\* too old or malformed stays in the map through every Get and GetStats
\* and through every Set that leaves the map within MaxEntries.
C29_GetIgnoresAge ==
    [][ /\ ( hist'.ops = hist.ops + 1 /\ last'.op = "Get"
                /\ last'.key \in DOMAIN entries )
            => /\ last'.found
               /\ last'.ret.Message = entries[last'.key].Message
        /\ ( /\ hist'.ops = hist.ops + 1
              /\ \/ last'.op \in {"Get", "GetStats"}
                 \/ /\ last'.op = "Set" /\ ~last'.panic
                    /\ Cardinality(DOMAIN entries \cup {last'.key})
                          <= config.MaxEntries )
            => \A k \in DOMAIN entries :
                   (TooOld(entries[k], now) \/ Malformed(entries[k]))
                       => k \in DOMAIN entries' ]_vars

\* A Get has hit an entry that is too old, in a map that a Set within
\* MaxEntries has added a second entry to.
C29_Witness ==
    /\ last.op = "Get"
    /\ last.found
    /\ TooOld(last.ret, last.t)
    /\ Cardinality(DOMAIN entries) = 2
    /\ config.MaxEntries = 2

C27_EveryCallReturns ==
    \A t \in Threads : (pc[t] # "idle") ~> (pc[t] = "idle")

====
